---- MODULE Spec2Model ----
(***************************************************************************)
(* A model of excel-number-format: render(value, format) runs the          *)
(* Tokenizer over the format string, the Parser over the tokens, selects   *)
(* one section of the AST and renders the value through it.                *)
(*                                                                         *)
(* Strings are sequences of one-character strings.  A number is a decimal  *)
(* [neg, n, e] standing for (-1)^neg * n / 10^e.  The values drawn are     *)
(* numbers whose String() is plain positional notation and whose product   *)
(* with 100^percentCount is exact in IEEE double arithmetic, so the exact  *)
(* decimal arithmetic below is what the code computes for them.            *)
(***************************************************************************)
EXTENDS Integers, Sequences, FiniteSets, TLC

VARIABLES
    pc,          \* position of the call: where in the pipeline it stands
    format,      \* render's format argument
    value,       \* render's value argument
    pos,         \* Tokenizer.pos (0-based, as in the source)
    tokens,      \* Tokenizer.tokenize's tokens
    index,       \* Parser.parse: index of the next token of the for loop
    sections,    \* Parser.parse's sections, then ast.sections
    section,     \* Parser.parse's in-progress section
    selected,    \* render: 1-based position in sections of selectSection's result, 0 for none
    result,      \* render's return value
    decimalStr,  \* formatDecimalPart's decimalStr argument
    decParts,    \* formatDecimalPart's parts argument
    decResult    \* formatDecimalPart's return value

vars == <<pc, format, value, pos, tokens, index, sections, section, selected,
          result, decimalStr, decParts, decResult>>

-----------------------------------------------------------------------------
(* Bounds of the model *)

MaxBodyLen == 4
MaxSections == 4
MaxDecParts == 3
MaxDecDigits == 3

-----------------------------------------------------------------------------
(* Strings and numbers *)

DigitChars == <<"0", "1", "2", "3", "4", "5", "6", "7", "8", "9">>

DigitSet == {DigitChars[i] : i \in 1..10}

IsDigitChar(c) == c \in DigitSet

DigitValue(c) == (CHOOSE i \in 1..10 : DigitChars[i] = c) - 1

Pow10(k) == IF k = 0 THEN 1 ELSE IF k = 1 THEN 10 ELSE IF k = 2 THEN 100
            ELSE IF k = 3 THEN 1000 ELSE IF k = 4 THEN 10000 ELSE 100000

Max(a, b) == IF a >= b THEN a ELSE b

RECURSIVE NatToDigits(_)
NatToDigits(n) ==
    IF n < 10 THEN <<DigitChars[n + 1]>>
    ELSE Append(NatToDigits(n \div 10), DigitChars[(n % 10) + 1])

RECURSIVE DigitsToNat(_)
DigitsToNat(ds) ==
    IF ds = <<>> THEN 0
    ELSE 10 * DigitsToNat(SubSeq(ds, 1, Len(ds) - 1)) + DigitValue(ds[Len(ds)])

Repeat(c, k) == [i \in 1..k |-> c]

Reverse(s) == [i \in 1..Len(s) |-> s[Len(s) + 1 - i]]

RECURSIVE StripTrailingZeros(_)
StripTrailingZeros(ds) ==
    IF ds # <<>> /\ ds[Len(ds)] = "0" THEN StripTrailingZeros(SubSeq(ds, 1, Len(ds) - 1))
    ELSE ds

Num(neg, n, e) == [kind |-> "number", neg |-> neg, n |-> n, e |-> e]

Text(s) == [kind |-> "string", s |-> s]

IsNumber(v) == v.kind = "number"

\* ScaledDigits with one factor of 100 however many percent marks there are
ScaledDigits_ScalesOnce(v, percentCount) ==
    LET shift == IF percentCount > 0 THEN 2 ELSE 0
        ds == IF v.n = 0 THEN <<"0">>
              ELSE NatToDigits(v.n) \o Repeat("0", Max(0, shift - v.e))
        e == Max(0, v.e - shift)
        padded == Repeat("0", Max(0, e + 1 - Len(ds))) \o ds
        cut == Len(padded) - e
    IN [integerStr |-> SubSeq(padded, 1, cut),
        decimalStr |-> StripTrailingZeros(SubSeq(padded, cut + 1, Len(padded)))]

\* The digits of |v| * 100^percentCount, split at the decimal point.
ScaledDigits(v, percentCount) ==
    LET shift == 2 * percentCount
        ds == IF v.n = 0 THEN <<"0">>
              ELSE NatToDigits(v.n) \o Repeat("0", Max(0, shift - v.e))
        e == Max(0, v.e - shift)
        padded == Repeat("0", Max(0, e + 1 - Len(ds))) \o ds
        cut == Len(padded) - e
    IN [integerStr |-> SubSeq(padded, 1, cut),
        decimalStr |-> StripTrailingZeros(SubSeq(padded, cut + 1, Len(padded)))]

\* String(value)
StringOf(v) ==
    IF ~IsNumber(v) THEN v.s
    ELSE LET d == ScaledDigits(v, 0)
         IN (IF v.neg THEN <<"-">> ELSE <<>>) \o d.integerStr
            \o (IF d.decimalStr = <<>> THEN <<>> ELSE <<".">> \o d.decimalStr)

\* -1, 0 or 1 as a < b, a = b or a > b
Compare(a, b) ==
    LET mag(x) == [ip |-> x.n \div Pow10(x.e),
                   fp |-> (x.n % Pow10(x.e)) * Pow10(3 - x.e)]
        cmpMag == IF mag(a).ip # mag(b).ip
                  THEN (IF mag(a).ip < mag(b).ip THEN -1 ELSE 1)
                  ELSE IF mag(a).fp # mag(b).fp
                  THEN (IF mag(a).fp < mag(b).fp THEN -1 ELSE 1)
                  ELSE 0
    IN IF a.neg /\ ~b.neg THEN -1
       ELSE IF ~a.neg /\ b.neg THEN 1
       ELSE IF a.neg THEN 0 - cmpMag
       ELSE cmpMag

Zero == Num(FALSE, 0, 0)

-----------------------------------------------------------------------------
(* Tokenizer *)

Tok(type, char, text, val) == [type |-> type, char |-> char, text |-> text, value |-> val]

\* this.format[this.pos + n], "" standing for undefined
peek(fmt, p, n) == IF p + n + 1 <= Len(fmt) THEN fmt[p + n + 1] ELSE ""

eof(fmt, p) == p >= Len(fmt)

StartsWith(fmt, pat, p) ==
    /\ p + Len(pat) <= Len(fmt)
    /\ \A i \in 1..Len(pat) : fmt[p + i] = pat[i]

\* readQuoted after the opening quote: [text, pos]
RECURSIVE readQuotedLoop(_, _, _)
readQuotedLoop(fmt, p, text) ==
    IF eof(fmt, p) THEN [text |-> text, pos |-> p]
    ELSE LET ch == peek(fmt, p, 0) IN
         IF ch = "\""
         THEN IF peek(fmt, p + 1, 0) = "\""
              THEN readQuotedLoop(fmt, p + 2, Append(text, "\""))
              ELSE [text |-> text, pos |-> p + 1]
         ELSE readQuotedLoop(fmt, p + 1, Append(text, ch))

readQuoted(fmt, p) ==
    LET r == readQuotedLoop(fmt, p + 1, <<>>)
    IN [tok |-> Tok("Quoted", "", r.text, Zero), pos |-> r.pos]

readEscape(fmt, p) == [tok |-> Tok("Escape", peek(fmt, p, 1), <<>>, Zero), pos |-> p + 2]

\* readFill that reads the marker and its character without consuming them
readFill_NoAdvance(fmt, p) == [tok |-> Tok("Fill", peek(fmt, p, 1), <<>>, Zero), pos |-> p]

readFill(fmt, p) == [tok |-> Tok("Fill", peek(fmt, p, 1), <<>>, Zero), pos |-> p + 2]

readSpace(fmt, p) == [tok |-> Tok("Space", peek(fmt, p, 1), <<>>, Zero), pos |-> p + 2]

\* the bracket's content: the characters from p up to the next "]" or the end
RECURSIVE bracketContent(_, _)
bracketContent(fmt, p) ==
    IF ~eof(fmt, p) /\ peek(fmt, p, 0) # "]"
    THEN <<peek(fmt, p, 0)>> \o bracketContent(fmt, p + 1)
    ELSE <<>>

AllDigits(s) == s # <<>> /\ \A i \in 1..Len(s) : IsDigitChar(s[i])

\* the operator a condition's content starts with: (<=|>=|<>|<|>|=), first alternative first
condOp(content) ==
    LET two == IF Len(content) >= 2 THEN SubSeq(content, 1, 2) ELSE <<>> IN
    IF two = <<"<", "=">> THEN <<"<", "=">>
    ELSE IF two = <<">", "=">> THEN <<">", "=">>
    ELSE IF two = <<"<", ">">> THEN <<"<", ">">>
    ELSE IF content # <<>> /\ content[1] \in {"<", ">", "="} THEN <<content[1]>>
    ELSE <<>>

\* /^-?\d+(\.\d+)?$/ on the text after the operator
IsCondNumber(s) ==
    LET t == IF s # <<>> /\ s[1] = "-" THEN Tail(s) ELSE s
        dots == {i \in 1..Len(t) : t[i] = "."}
    IN IF dots = {} THEN AllDigits(t)
       ELSE \E i \in dots : /\ AllDigits(SubSeq(t, 1, i - 1))
                            /\ AllDigits(SubSeq(t, i + 1, Len(t)))

\* Number(condMatch[2])
CondNumber(s) ==
    LET neg == s[1] = "-"
        t == IF neg THEN Tail(s) ELSE s
        dots == {i \in 1..Len(t) : t[i] = "."}
        ip == IF dots = {} THEN t ELSE SubSeq(t, 1, (CHOOSE i \in dots : TRUE) - 1)
        fp == IF dots = {} THEN <<>>
              ELSE StripTrailingZeros(SubSeq(t, (CHOOSE i \in dots : TRUE) + 1, Len(t)))
        n == DigitsToNat(ip \o fp)
    IN Num(neg /\ n # 0, n, Len(fp))

colors == {<<"B", "l", "a", "c", "k">>, <<"B", "l", "u", "e">>, <<"C", "y", "a", "n">>,
           <<"G", "r", "e", "e", "n">>, <<"M", "a", "g", "e", "n", "t", "a">>,
           <<"R", "e", "d">>, <<"W", "h", "i", "t", "e">>,
           <<"Y", "e", "l", "l", "o", "w">>}

readBracket(fmt, p) ==
    LET content == bracketContent(fmt, p + 1)
        after == p + 1 + Len(content) + 1
        op == condOp(content)
        rest == SubSeq(content, Len(op) + 1, Len(content))
    IN IF op # <<>> /\ IsCondNumber(rest)
       THEN [tok |-> Tok("Condition", "", op, CondNumber(rest)), pos |-> after]
       ELSE IF content \in colors
       THEN [tok |-> Tok("Color", "", content, Zero), pos |-> after]
       ELSE [tok |-> Tok("Locale", "", content, Zero), pos |-> after]

\* tryScientific: TRUE when it returns a token
IsScientific(fmt, p) ==
    /\ peek(fmt, p, 0) \in {"E", "e"}
    /\ peek(fmt, p, 1) \in {"+", "-"}

patterns == <<
    <<"y", "y", "y", "y">>, <<"y", "y", "y">>, <<"y", "y">>, <<"y">>,
    <<"m", "m", "m", "m", "m">>, <<"m", "m", "m", "m">>, <<"m", "m", "m">>,
    <<"m", "m">>, <<"m">>,
    <<"d", "d", "d", "d">>, <<"d", "d", "d">>, <<"d", "d">>, <<"d">>,
    <<"h", "h">>, <<"h">>, <<"s", "s">>, <<"s">>,
    <<"A", "M", "/", "P", "M">>, <<"a", "m", "/", "p", "m">> >>

\* tryDateToken: the index of the first pattern the format starts with at p, 0 for null
tryDateToken(fmt, p) ==
    LET hits == {i \in 1..Len(patterns) : StartsWith(fmt, patterns[i], p)}
    IN IF hits = {} THEN 0 ELSE CHOOSE i \in hits : \A j \in hits : i <= j

\* one iteration of tokenize's while loop at p: the token pushed and the new pos
scanToken(fmt, p) ==
    LET ch == peek(fmt, p, 0) IN
    IF ch = ";" THEN [tok |-> Tok("SectionSeparator", "", <<>>, Zero), pos |-> p + 1]
    ELSE IF ch = "\"" THEN readQuoted(fmt, p)
    ELSE IF ch = "\\" THEN readEscape(fmt, p)
    ELSE IF ch = "*" THEN readFill(fmt, p)
    ELSE IF ch = "_" THEN readSpace(fmt, p)
    ELSE IF ch = "[" THEN readBracket(fmt, p)
    ELSE IF ch \in {"0", "#", "?"} THEN [tok |-> Tok("Placeholder", ch, <<>>, Zero), pos |-> p + 1]
    ELSE IF ch = "." THEN [tok |-> Tok("DecimalPoint", "", <<>>, Zero), pos |-> p + 1]
    ELSE IF ch = "," THEN [tok |-> Tok("ThousandSep", "", <<>>, Zero), pos |-> p + 1]
    ELSE IF ch = "%" THEN [tok |-> Tok("Percent", "", <<>>, Zero), pos |-> p + 1]
    ELSE IF IsScientific(fmt, p)
         THEN [tok |-> Tok("ScientificSymbol", peek(fmt, p, 1), <<>>, Zero), pos |-> p + 2]
    ELSE IF ch = "@" THEN [tok |-> Tok("TextPlaceholder", "", <<>>, Zero), pos |-> p + 1]
    ELSE IF tryDateToken(fmt, p) # 0
         THEN [tok |-> Tok("DateToken", "", patterns[tryDateToken(fmt, p)], Zero),
               pos |-> p + Len(patterns[tryDateToken(fmt, p)])]
    ELSE [tok |-> Tok("Literal", ch, <<>>, Zero), pos |-> p + 1]

\* tokenize's while loop from pos p on: the tokens pushed
RECURSIVE tokenizeFrom(_, _)
tokenizeFrom(fmt, p) ==
    IF eof(fmt, p) THEN <<>>
    ELSE <<scanToken(fmt, p).tok>> \o tokenizeFrom(fmt, scanToken(fmt, p).pos)

\* new Tokenizer(format).tokenize()
tokenize(fmt) == tokenizeFrom(fmt, 0)

-----------------------------------------------------------------------------
(* Parser *)

NoCondition == [op |-> <<>>, value |-> Zero]

NoColor == <<>>

Part(kind, char) == [kind |-> kind, char |-> char]

NewSection == [condition |-> NoCondition, color |-> NoColor, parts |-> <<>>,
               scientific |-> "", percentCount |-> 0, thousandSeparator |-> FALSE,
               scale |-> 1]

HasCondition(s) == s.condition # NoCondition

PlaceholderKind(char) ==
    IF char = "0" THEN "ZeroDigit" ELSE IF char = "#" THEN "Digit" ELSE "SpaceDigit"

IsPlaceholderPart(p) == p.kind \in {"Digit", "ZeroDigit", "SpaceDigit"}

\* this.tokens[i] for a 0-based i, a token of type "" standing for undefined
TokenAt(tks, i) == IF i >= 0 /\ i < Len(tks) THEN tks[i + 1] ELSE Tok("", "", <<>>, Zero)

\* the parts a Quoted token appends: one Literal per character
QuotedParts(text) == [i \in 1..Len(text) |-> Part("Literal", text[i])]

\* parseToken that looks for a later placeholder in the comma's own section only
parseToken_ScaleWithinSection(sec, tks, i) ==
    LET tk == TokenAt(tks, i)
        nextTk == TokenAt(tks, i + 1)
        prevTk == TokenAt(tks, i - 1)
    IN CASE tk.type = "Color" -> [sec EXCEPT !.color = tk.text]
         [] tk.type = "Condition" ->
              [sec EXCEPT !.condition = [op |-> tk.text, value |-> tk.value]]
         [] tk.type = "Dot" -> [sec EXCEPT !.parts = Append(@, Part("Dot", ""))]
         [] tk.type = "ThousandSep" ->
              IF prevTk.type = "Placeholder"
              THEN IF nextTk.type = "Placeholder"
                   THEN [sec EXCEPT !.thousandSeparator = TRUE]
                   ELSE IF ~\E j \in (i + 1)..(Len(tks) - 1) :
                               /\ TokenAt(tks, j).type = "Placeholder"
                               /\ \A m \in (i + 1)..j : TokenAt(tks, m).type # "SectionSeparator"
                   THEN [sec EXCEPT !.scale = @ * 1000]
                   ELSE sec
              ELSE IF prevTk.type = "Literal"
              THEN [sec EXCEPT !.parts = Append(@, Part("Literal", ","))]
              ELSE sec
         [] tk.type = "Percent" ->
              [sec EXCEPT !.percentCount = @ + 1, !.parts = Append(@, Part("Percent", ""))]
         [] tk.type = "ScientificSymbol" -> [sec EXCEPT !.scientific = tk.char]
         [] tk.type = "Literal" -> [sec EXCEPT !.parts = Append(@, Part("Literal", tk.char))]
         [] tk.type = "Quoted" -> [sec EXCEPT !.parts = @ \o QuotedParts(tk.text)]
         [] tk.type = "Placeholder" ->
              [sec EXCEPT !.parts = Append(@, Part(PlaceholderKind(tk.char), ""))]
         [] OTHER -> sec

\* parseToken that also keeps a scaling comma as a literal
parseToken_TrailingCommaLiteral(sec, tks, i) ==
    LET tk == TokenAt(tks, i)
        nextTk == TokenAt(tks, i + 1)
        prevTk == TokenAt(tks, i - 1)
    IN CASE tk.type = "Color" -> [sec EXCEPT !.color = tk.text]
         [] tk.type = "Condition" ->
              [sec EXCEPT !.condition = [op |-> tk.text, value |-> tk.value]]
         [] tk.type = "Dot" -> [sec EXCEPT !.parts = Append(@, Part("Dot", ""))]
         [] tk.type = "ThousandSep" ->
              IF prevTk.type = "Placeholder"
              THEN IF nextTk.type = "Placeholder"
                   THEN [sec EXCEPT !.thousandSeparator = TRUE]
                   ELSE IF ~\E j \in (i + 1)..(Len(tks) - 1) : TokenAt(tks, j).type = "Placeholder"
                   THEN [sec EXCEPT !.scale = @ * 1000,
                                    !.parts = Append(@, Part("Literal", ","))]
                   ELSE sec
              ELSE IF prevTk.type = "Literal"
              THEN [sec EXCEPT !.parts = Append(@, Part("Literal", ","))]
              ELSE sec
         [] tk.type = "Percent" ->
              [sec EXCEPT !.percentCount = @ + 1, !.parts = Append(@, Part("Percent", ""))]
         [] tk.type = "ScientificSymbol" -> [sec EXCEPT !.scientific = tk.char]
         [] tk.type = "Literal" -> [sec EXCEPT !.parts = Append(@, Part("Literal", tk.char))]
         [] tk.type = "Quoted" -> [sec EXCEPT !.parts = @ \o QuotedParts(tk.text)]
         [] tk.type = "Placeholder" ->
              [sec EXCEPT !.parts = Append(@, Part(PlaceholderKind(tk.char), ""))]
         [] OTHER -> sec

\* parseToken that keeps an escaped character as a literal
parseToken_EscapeIsLiteral(sec, tks, i) ==
    LET tk == TokenAt(tks, i)
        nextTk == TokenAt(tks, i + 1)
        prevTk == TokenAt(tks, i - 1)
    IN CASE tk.type = "Color" -> [sec EXCEPT !.color = tk.text]
         [] tk.type = "Condition" ->
              [sec EXCEPT !.condition = [op |-> tk.text, value |-> tk.value]]
         [] tk.type = "Dot" -> [sec EXCEPT !.parts = Append(@, Part("Dot", ""))]
         [] tk.type = "ThousandSep" ->
              IF prevTk.type = "Placeholder"
              THEN IF nextTk.type = "Placeholder"
                   THEN [sec EXCEPT !.thousandSeparator = TRUE]
                   ELSE IF ~\E j \in (i + 1)..(Len(tks) - 1) : TokenAt(tks, j).type = "Placeholder"
                   THEN [sec EXCEPT !.scale = @ * 1000]
                   ELSE sec
              ELSE IF prevTk.type = "Literal"
              THEN [sec EXCEPT !.parts = Append(@, Part("Literal", ","))]
              ELSE sec
         [] tk.type = "Percent" ->
              [sec EXCEPT !.percentCount = @ + 1, !.parts = Append(@, Part("Percent", ""))]
         [] tk.type = "ScientificSymbol" -> [sec EXCEPT !.scientific = tk.char]
         [] tk.type = "Literal" -> [sec EXCEPT !.parts = Append(@, Part("Literal", tk.char))]
         [] tk.type = "Escape" -> [sec EXCEPT !.parts = Append(@, Part("Literal", tk.char))]
         [] tk.type = "Quoted" -> [sec EXCEPT !.parts = @ \o QuotedParts(tk.text)]
         [] tk.type = "Placeholder" ->
              [sec EXCEPT !.parts = Append(@, Part(PlaceholderKind(tk.char), ""))]
         [] OTHER -> sec

\* the body of parse's for loop for every token but a SectionSeparator:
\* the in-progress section after the token tks[i] (0-based i)
parseToken(sec, tks, i) ==
    LET tk == TokenAt(tks, i)
        nextTk == TokenAt(tks, i + 1)
        prevTk == TokenAt(tks, i - 1)
    IN CASE tk.type = "Color" -> [sec EXCEPT !.color = tk.text]
         [] tk.type = "Condition" ->
              [sec EXCEPT !.condition = [op |-> tk.text, value |-> tk.value]]
         [] tk.type = "Dot" -> [sec EXCEPT !.parts = Append(@, Part("Dot", ""))]
         [] tk.type = "ThousandSep" ->
              IF prevTk.type = "Placeholder"
              THEN IF nextTk.type = "Placeholder"
                   THEN [sec EXCEPT !.thousandSeparator = TRUE]
                   ELSE IF ~\E j \in (i + 1)..(Len(tks) - 1) : TokenAt(tks, j).type = "Placeholder"
                   THEN [sec EXCEPT !.scale = @ * 1000]
                   ELSE sec
              ELSE IF prevTk.type = "Literal"
              THEN [sec EXCEPT !.parts = Append(@, Part("Literal", ","))]
              ELSE sec
         [] tk.type = "Percent" ->
              [sec EXCEPT !.percentCount = @ + 1, !.parts = Append(@, Part("Percent", ""))]
         [] tk.type = "ScientificSymbol" -> [sec EXCEPT !.scientific = tk.char]
         [] tk.type = "Literal" -> [sec EXCEPT !.parts = Append(@, Part("Literal", tk.char))]
         [] tk.type = "Quoted" -> [sec EXCEPT !.parts = @ \o QuotedParts(tk.text)]
         [] tk.type = "Placeholder" ->
              [sec EXCEPT !.parts = Append(@, Part(PlaceholderKind(tk.char), ""))]
         [] OTHER -> sec

\* pushSection that keeps no section without parts
pushSection_SkipEmpty(secs, sec) == IF sec.parts # <<>> THEN Append(secs, sec) ELSE secs

\* case 'SectionSeparator': sections.push(section)
pushSection(secs, sec) == Append(secs, sec)

\* finalSections that pushes the in-progress section whatever it holds
finalSections_AlwaysPush(secs, sec) == Append(secs, sec)

\* after the loop: if (section.parts.length > 0) sections.push(section)
finalSections(secs, sec) == IF sec.parts # <<>> THEN Append(secs, sec) ELSE secs

\* parse's loop from token i (0-based) on, with the sections pushed so far and the
\* in-progress section; the AST's sections
RECURSIVE parseFrom(_, _, _, _)
parseFrom(tks, i, secs, sec) ==
    IF i >= Len(tks) THEN finalSections(secs, sec)
    ELSE IF TokenAt(tks, i).type = "SectionSeparator"
    THEN parseFrom(tks, i + 1, pushSection(secs, sec), NewSection)
    ELSE parseFrom(tks, i + 1, secs, parseToken(sec, tks, i))

\* new Parser(tokens).parse().sections
parse(tks) == parseFrom(tks, 0, <<>>, NewSection)

-----------------------------------------------------------------------------
(* Renderer *)

evaluateCondition(condition, numValue) ==
    LET c == Compare(numValue, condition.value) IN
    CASE condition.op = <<">">> -> c > 0
      [] condition.op = <<">", "=">> -> c >= 0
      [] condition.op = <<"<">> -> c < 0
      [] condition.op = <<"<", "=">> -> c <= 0
      [] condition.op = <<"=">> -> c = 0
      [] condition.op = <<"<", ">">> -> c # 0
      [] OTHER -> TRUE

\* positions (1-based) of the elements of s that satisfy Test
FirstIndex(s, Test(_)) ==
    LET hits == {i \in 1..Len(s) : Test(s[i])}
    IN IF hits = {} THEN 0 ELSE CHOOSE i \in hits : \A j \in hits : i <= j

LastIndex(s, Test(_)) ==
    LET hits == {i \in 1..Len(s) : Test(s[i])}
    IN IF hits = {} THEN 0 ELSE CHOOSE i \in hits : \A j \in hits : i >= j

\* selectSection's sections with a condition, for a number: the first section whose
\* condition matches, else the first section without a condition, else null (0)
selectByCondition_LastMatch(secs, v) ==
    LET matches(s) == HasCondition(s) /\ evaluateCondition(s.condition, v)
        plain(s) == ~HasCondition(s)
    IN IF LastIndex(secs, matches) # 0 THEN LastIndex(secs, matches)
       ELSE FirstIndex(secs, plain)

selectByCondition(secs, v) ==
    LET matches(s) == HasCondition(s) /\ evaluateCondition(s.condition, v)
        plain(s) == ~HasCondition(s)
    IN IF FirstIndex(secs, matches) # 0 THEN FirstIndex(secs, matches)
       ELSE FirstIndex(secs, plain)

\* selectSection for a text value: sections[3] of four, else sections[0]
selectForText(secs) == IF Len(secs) = 4 THEN 4 ELSE IF Len(secs) >= 1 THEN 1 ELSE 0

\* selectSection for a number by the count of sections
selectBySign_ZeroIsNegative(secs, v) ==
    LET n == Len(secs) IN
    IF n = 2 THEN (IF v.neg \/ v.n = 0 THEN 2 ELSE 1)
    ELSE IF n = 3 \/ n = 4
    THEN (IF ~v.neg /\ v.n > 0 THEN 1 ELSE IF v.neg THEN 2 ELSE 3)
    ELSE IF n >= 1 THEN 1 ELSE 0

selectBySign(secs, v) ==
    LET n == Len(secs) IN
    IF n = 2 THEN (IF v.neg THEN 2 ELSE 1)
    ELSE IF n = 3 \/ n = 4
    THEN (IF ~v.neg /\ v.n > 0 THEN 1 ELSE IF v.neg THEN 2 ELSE 3)
    ELSE IF n >= 1 THEN 1 ELSE 0

\* selectSection: the 1-based position in secs of the section returned, 0 for null or undefined
selectSection(secs, v) ==
    IF Len(secs) = 1 THEN 1
    ELSE IF (\E i \in 1..Len(secs) : HasCondition(secs[i])) /\ IsNumber(v)
    THEN selectByCondition(secs, v)
    ELSE IF ~IsNumber(v) THEN selectForText(secs)
    ELSE selectBySign(secs, v)

\* formatTextSection with the value's text put at every digit placeholder
formatTextSection_EchoAtPlaceholder(text, sec) ==
    LET lit(p) == IF p.kind = "Literal" THEN <<p.char>>
                  ELSE IF p.kind \in {"Digit", "ZeroDigit", "SpaceDigit"} THEN text
                  ELSE <<>>
        RECURSIVE cat(_)
        cat(ps) == IF ps = <<>> THEN <<>> ELSE lit(Head(ps)) \o cat(Tail(ps))
    IN cat(sec.parts)

formatTextSection(text, sec) ==
    LET lit(p) == IF p.kind = "Literal" THEN <<p.char>> ELSE <<>>
        RECURSIVE cat(_)
        cat(ps) == IF ps = <<>> THEN <<>> ELSE lit(Head(ps)) \o cat(Tail(ps))
    IN cat(sec.parts)


\* pushDigit without its digits > 0 test
pushIntDigit_NoFirstDigitTest(st, c, thousandSeparator) ==
    [st EXCEPT !.result = @ \o (IF thousandSeparator /\ st.digits % 3 = 0
                                THEN <<",">> ELSE <<>>) \o <<c>>,
               !.digits = @ + 1]

\* formatIntegerPart's pushDigit on the state st = [digitIndex, digits, result]
pushIntDigit(st, c, thousandSeparator) ==
    [st EXCEPT !.result = @ \o (IF thousandSeparator /\ st.digits > 0 /\ st.digits % 3 = 0
                                THEN <<",">> ELSE <<>>) \o <<c>>,
               !.digits = @ + 1]

\* while (hasMoreInt()) pushDigit(nextInt())
RECURSIVE flushInt(_, _, _)
flushInt(integerStr, st, thousandSeparator) ==
    IF st.digitIndex >= 0
    THEN flushInt(integerStr,
                  pushIntDigit([st EXCEPT !.digitIndex = @ - 1],
                               integerStr[st.digitIndex + 1], thousandSeparator),
                  thousandSeparator)
    ELSE st

\* the loop body with an exhausted '0' placeholder emitting a space, as '?' does
intPartStep_ZeroPadsSpace(integerStr, thousandSeparator, part, i, lastDigitIndex, st) ==
    IF part.kind \in {"Digit", "ZeroDigit", "SpaceDigit"}
    THEN LET taken == [st EXCEPT !.digitIndex = @ - 1]
             pushed == IF st.digitIndex < 0
                       THEN IF part.kind \in {"ZeroDigit", "SpaceDigit"}
                            THEN [taken EXCEPT !.result = Append(@, " ")]
                            ELSE taken
                       ELSE pushIntDigit(taken, integerStr[st.digitIndex + 1],
                                         thousandSeparator)
         IN IF i = lastDigitIndex THEN flushInt(integerStr, pushed, thousandSeparator)
            ELSE pushed
    ELSE IF part.kind = "Literal" THEN [st EXCEPT !.result = Append(@, part.char)]
    ELSE IF part.kind = "Percent" THEN [st EXCEPT !.result = Append(@, "%")]
    ELSE st

\* the body of formatIntegerPart's for loop for the reversed part at the 0-based index i
intPartStep(integerStr, thousandSeparator, part, i, lastDigitIndex, st) ==
    IF IsPlaceholderPart(part)
    THEN LET taken == [st EXCEPT !.digitIndex = @ - 1]
             pushed == IF st.digitIndex < 0
                       THEN IF part.kind = "ZeroDigit"
                            THEN pushIntDigit(taken, "0", thousandSeparator)
                            ELSE IF part.kind = "SpaceDigit"
                            THEN [taken EXCEPT !.result = Append(@, " ")]
                            ELSE taken
                       ELSE pushIntDigit(taken, integerStr[st.digitIndex + 1],
                                         thousandSeparator)
         IN IF i = lastDigitIndex THEN flushInt(integerStr, pushed, thousandSeparator)
            ELSE pushed
    ELSE IF part.kind = "Literal" THEN [st EXCEPT !.result = Append(@, part.char)]
    ELSE IF part.kind = "Percent" THEN [st EXCEPT !.result = Append(@, "%")]
    ELSE st


RECURSIVE intPartLoop(_, _, _, _, _, _)
intPartLoop(integerStr, thousandSeparator, reversed, i, lastDigitIndex, st) ==
    IF i >= Len(reversed) THEN st
    ELSE intPartLoop(integerStr, thousandSeparator, reversed, i + 1, lastDigitIndex,
                     intPartStep(integerStr, thousandSeparator, reversed[i + 1], i,
                                 lastDigitIndex, st))

\* formatIntegerPart with the flush at the first placeholder's index in the format
\* order, not in the reversed order
formatIntegerPart_FlushUnreversed(integerStr, sec, parts) ==
    LET firstDigitIndex == FirstIndex(parts, IsPlaceholderPart) - 1
        lastDigitIndex == firstDigitIndex
        st == intPartLoop(integerStr, sec.thousandSeparator, Reverse(parts), 0,
                          lastDigitIndex,
                          [digitIndex |-> Len(integerStr) - 1, digits |-> 0,
                           result |-> <<>>])
    IN Reverse(st.result)

formatIntegerPart(integerStr, sec, parts) ==
    LET firstDigitIndex == FirstIndex(parts, IsPlaceholderPart) - 1
        lastDigitIndex == IF firstDigitIndex > -1 THEN Len(parts) - firstDigitIndex - 1
                          ELSE -1
        st == intPartLoop(integerStr, sec.thousandSeparator, Reverse(parts), 0,
                          lastDigitIndex,
                          [digitIndex |-> Len(integerStr) - 1, digits |-> 0,
                           result |-> <<>>])
    IN Reverse(st.result)

\* String(Number(c) + 1) for a digit or a space
IncrementChar(c) == NatToDigits((IF c = " " THEN 0 ELSE DigitValue(c)) + 1)

\* formatDecimalPart's pushDigit on the state st = [digitIndex, digits, result]
pushDecDigit(decStr, lastPlaceholderIndex, st, c) ==
    LET next == IF st.digits + 2 <= Len(decStr) THEN decStr[st.digits + 2] ELSE ""
        out == IF st.digits = lastPlaceholderIndex /\ next \in {"5", "6", "7", "8", "9"}
               THEN IncrementChar(c) ELSE <<c>>
    IN [st EXCEPT !.digits = @ + 1, !.result = @ \o out]

\* the body of formatDecimalPart's for loop
decPartStep(decStr, lastPlaceholderIndex, part, st) ==
    LET digit == IF st.digitIndex + 1 <= Len(decStr) THEN decStr[st.digitIndex + 1] ELSE ""
        taken == [st EXCEPT !.digitIndex = @ + 1]
    IN CASE part.kind = "ZeroDigit" ->
              pushDecDigit(decStr, lastPlaceholderIndex, taken, IF digit = "" THEN "0" ELSE digit)
         [] part.kind = "Digit" ->
              IF digit # "" THEN pushDecDigit(decStr, lastPlaceholderIndex, taken, digit)
              ELSE taken
         [] part.kind = "SpaceDigit" ->
              pushDecDigit(decStr, lastPlaceholderIndex, taken, IF digit = "" THEN " " ELSE digit)
         [] part.kind = "Percent" -> [st EXCEPT !.result = Append(@, "%")]
         [] part.kind = "Literal" -> [st EXCEPT !.result = Append(@, part.char)]
         [] OTHER -> st

RECURSIVE decPartLoop(_, _, _, _, _)
decPartLoop(decStr, lastPlaceholderIndex, parts, i, st) ==
    IF i > Len(parts) THEN st
    ELSE decPartLoop(decStr, lastPlaceholderIndex, parts, i + 1,
                     decPartStep(decStr, lastPlaceholderIndex, parts[i], st))

formatDecimalPart(decStr, sec, parts) ==
    decPartLoop(decStr, LastIndex(parts, IsPlaceholderPart) - 1, parts, 1,
                [digitIndex |-> 0, digits |-> 0, result |-> <<>>]).result

IsDot(p) == p.kind = "Dot"

\* renderSection without the early return for a section that has no Dot part
renderSection_AlwaysDecimal(sec, v) ==
    IF ~IsNumber(v) THEN formatTextSection(v.s, sec)
    ELSE LET num == ScaledDigits(v, sec.percentCount)
             dotIndex == FirstIndex(sec.parts, IsDot) - 1
             integerParts == IF dotIndex > -1 THEN SubSeq(sec.parts, 1, dotIndex)
                             ELSE sec.parts
             decimalParts == IF dotIndex > -1
                             THEN SubSeq(sec.parts, dotIndex + 2, Len(sec.parts))
                             ELSE <<>>
             formatedInt == (IF v.neg THEN <<"-">> ELSE <<>>)
                            \o formatIntegerPart(num.integerStr, sec, integerParts)
         IN formatedInt \o <<".">> \o formatDecimalPart(num.decimalStr, sec, decimalParts)

\* renderSection's return value
renderSection(sec, v) ==
    IF ~IsNumber(v) THEN formatTextSection(v.s, sec)
    ELSE LET num == ScaledDigits(v, sec.percentCount)
             dotIndex == FirstIndex(sec.parts, IsDot) - 1
             integerParts == IF dotIndex > -1 THEN SubSeq(sec.parts, 1, dotIndex)
                             ELSE sec.parts
             decimalParts == IF dotIndex > -1
                             THEN SubSeq(sec.parts, dotIndex + 2, Len(sec.parts))
                             ELSE <<>>
             formatedInt == (IF v.neg THEN <<"-">> ELSE <<>>)
                            \o formatIntegerPart(num.integerStr, sec, integerParts)
         IN IF dotIndex = -1 THEN formatedInt
            ELSE formatedInt \o <<".">> \o formatDecimalPart(num.decimalStr, sec, decimalParts)

\* section.parts after renderSection: parts.reverse() reverses the section's own
\* array when integerParts is that array (no Dot part), and a copy otherwise
partsAfterRender(sec, v) ==
    IF IsNumber(v) /\ FirstIndex(sec.parts, IsDot) = 0 THEN Reverse(sec.parts)
    ELSE sec.parts

\* the outcome of a render that throws instead of returning
Thrown == [text |-> <<"TypeError">>, color |-> <<"!">>]

\* renderResult without the test of !section: section.condition of no section throws
renderResult_NoNullCheck(secs, sel, v) ==
    IF sel = 0 THEN Thrown
    ELSE IF HasCondition(secs[sel])
            /\ (~IsNumber(v) \/ ~evaluateCondition(secs[sel].condition, v))
    THEN [text |-> StringOf(v), color |-> NoColor]
    ELSE [text |-> renderSection(secs[sel], v), color |-> secs[sel].color]

\* renderResult that tests a section's condition for numbers only
renderResult_TextSkipsCondition(secs, sel, v) ==
    IF sel = 0 THEN [text |-> StringOf(v), color |-> NoColor]
    ELSE IF HasCondition(secs[sel])
            /\ IsNumber(v) /\ ~evaluateCondition(secs[sel].condition, v)
    THEN [text |-> StringOf(v), color |-> NoColor]
    ELSE [text |-> renderSection(secs[sel], v), color |-> secs[sel].color]

\* render's return value, given selectSection's result sel
renderResult(secs, sel, v) ==
    IF sel = 0 THEN [text |-> StringOf(v), color |-> NoColor]
    ELSE IF HasCondition(secs[sel])
            /\ (~IsNumber(v) \/ ~evaluateCondition(secs[sel].condition, v))
    THEN [text |-> StringOf(v), color |-> NoColor]
    ELSE [text |-> renderSection(secs[sel], v), color |-> secs[sel].color]

\* render reaches renderSection
Renders(secs, sel, v) ==
    /\ sel # 0
    /\ ~(HasCondition(secs[sel]) /\ (~IsNumber(v) \/ ~evaluateCondition(secs[sel].condition, v)))

\* render(value, format) as a function of its arguments
render(v, fmt) ==
    LET secs == parse(tokenize(fmt))
    IN renderResult(secs, selectSection(secs, v), v)

-----------------------------------------------------------------------------
(* The inputs drawn *)

\* the sequences over alphabet of length lo..hi
SeqsOver(alphabet, lo, hi) == UNION {[1..k -> alphabet] : k \in lo..hi}

RECURSIVE Join(_)
Join(secs) ==
    IF secs = <<>> THEN <<>>
    ELSE IF Len(secs) = 1 THEN secs[1]
    ELSE secs[1] \o <<";">> \o Join(Tail(secs))

\* sections with and without a condition, a color, literals and placeholders
SectionTexts == {
    <<"0">>,
    <<>>,
    <<"[", ">", "1", "]", "0">>,
    <<"[", "<", "=", "0", "]", "[", "R", "e", "d", "]", "x">>,
    <<"[", "B", "l", "u", "e", "]", "#", "x">>,
    <<"\"", "t", "\"", "0">> }

SectionFormats == {Join(f) : f \in SeqsOver(SectionTexts, 0, MaxSections)}

BodyChars == {"0", "#", "?", "x", ",", "%"}

BodyFormats == SeqsOver(BodyChars, 1, MaxBodyLen)

DotFormats == {a \o <<".">> \o b : a \in SeqsOver({"0", "#"}, 1, 2),
                                  b \in SeqsOver({"0", "#"}, 1, 2)}

\* the formats of the README's and the tests' examples
ExampleFormats == {
    <<"0", ".", "0", "0", "0">>,
    <<"0", ",", "0", ".", "0", "0">>,
    <<"0", ";", "[", "R", "e", "d", "]", "-", "0">>,
    <<"0", ";", "[", "R", "e", "d", "]", "-", "0", ";",
      "[", "B", "l", "u", "e", "]", "\"", "Z", "e", "r", "o", "\"">>,
    <<"#", "o", "k", "#", "o", "k", "#">>,
    <<"#", "#", "#", "#", "#">>,
    <<"0", ",", "0", "0", "0">> }

\* formats of more than four sections, of separators only, with a trailing section
\* that holds no part, and with a condition and a color on their only section
SectionEdgeFormats == {
    <<"0", ";", "0", ";", "0", ";", "0", ";", "0">>,
    <<";", ";", ";", ";">>,
    <<"[", "R", "e", "d", "]">>,
    <<"0", ";", "[", "R", "e", "d", "]">>,
    <<";", "0", ";", "[", "R", "e", "d", "]">>,
    <<"0", ";", "[", ">", "1", "]">>,
    <<"0", ";", ";", "x", ";">>,
    <<"[", ">", "1", "]", "[", "R", "e", "d", "]", "x", "0", "0">> }

\* formats that end inside a quote, a bracket or an escape, fill or space marker
UnterminatedFormats == {
    <<"\"", "a", "b">>,
    <<"0", "\"">>,
    <<"[", "R", "e", "d">>,
    <<"0", "[">>,
    <<"0", "\\">>,
    <<"0", "*">>,
    <<"0", "_">>,
    <<"\\", "x", "0">>,
    <<"*", "x", "0">>,
    <<"_", "x", "0">> }

\* formats with commas next to quotes and separators, a quoted percent sign, and the
\* tokens the builder ignores
TokenFormats == {
    <<"0", ",", ";", "0">>,
    <<"0", ",", ";", "x">>,
    <<"\"", "t", "\"", ",", "0">>,
    <<"\"", "%", "\"", "0">>,
    <<"0", "\"", "%", "\"", "%">>,
    <<"0", "E", "+", "0">>,
    <<"0", "e", "-", "E">>,
    <<"y", "y", "y", "y", "-", "m", "m">>,
    <<"[", "$", "x", "]", "0", "@">>,
    <<"[", "]", "0">> }

\* formats with unquoted letters of date patterns among placeholders and commas
DateLetterFormats == SeqsOver({"0", "d", "s", ","}, 1, MaxBodyLen)
                         \cup {<<"h", "#", "m", "x", "y">>}

Formats == SectionFormats \cup BodyFormats \cup DotFormats \cup ExampleFormats
               \cup DateLetterFormats
               \cup SectionEdgeFormats \cup UnterminatedFormats \cup TokenFormats

Numbers == {Num(FALSE, 0, 0), Num(FALSE, 7, 0), Num(FALSE, 123, 0), Num(FALSE, 1234, 0),
            Num(FALSE, 1234567, 0), Num(FALSE, 1234567890, 0),
            Num(TRUE, 3, 0), Num(TRUE, 100, 0), Num(TRUE, 123, 0),
            Num(FALSE, 5, 1), Num(FALSE, 15, 1), Num(TRUE, 25, 1), Num(FALSE, 1275, 2),
            Num(FALSE, 123456, 3), Num(FALSE, 123456, 2)}

Texts == {Text(<<"a", "b">>)}

Values == Numbers \cup Texts

NoValue == [kind |-> "unset"]

NoResult == [text |-> <<>>, color |-> <<"?">>]

DecDigitChars == {"0", "4", "5", "9"}

\* fraction-digit strings: String() leaves no trailing zero
DecimalStrs == {d \in SeqsOver(DecDigitChars, 0, MaxDecDigits) : d = <<>> \/ d[Len(d)] # "0"}

DecPartChoices == {Part("ZeroDigit", ""), Part("Digit", ""), Part("SpaceDigit", ""),
                   Part("Literal", "x"), Part("Percent", "")}

-----------------------------------------------------------------------------
(* render(value, format) *)

Init ==
    /\ pc = "tokenize"
    /\ format \in Formats
    /\ value = NoValue
    /\ pos = 0
    /\ tokens = <<>>
    /\ index = 0
    /\ sections = <<>>
    /\ section = NewSection
    /\ selected = 0
    /\ result = NoResult
    /\ decimalStr = <<>>
    /\ decParts = <<>>
    /\ decResult = <<>>

\* one iteration of tokenize's while loop
TokenizeStep ==
    /\ pc = "tokenize"
    /\ ~eof(format, pos)
    /\ tokens' = Append(tokens, scanToken(format, pos).tok)
    /\ pos' = scanToken(format, pos).pos
    /\ UNCHANGED <<pc, format, value, index, sections, section, selected, result,
                   decimalStr, decParts, decResult>>

\* tokenize returns; parse starts
TokenizeReturn ==
    /\ pc = "tokenize"
    /\ eof(format, pos)
    /\ pc' = "parse"
    /\ index' = 0
    /\ sections' = <<>>
    /\ section' = NewSection
    /\ UNCHANGED <<format, value, pos, tokens, selected, result,
                   decimalStr, decParts, decResult>>

\* one iteration of parse's for loop
ParseStep ==
    /\ pc = "parse"
    /\ index < Len(tokens)
    /\ IF TokenAt(tokens, index).type = "SectionSeparator"
       THEN /\ sections' = pushSection(sections, section)
            /\ section' = NewSection
       ELSE /\ section' = parseToken(section, tokens, index)
            /\ UNCHANGED sections
    /\ index' = index + 1
    /\ UNCHANGED <<pc, format, value, pos, tokens, selected, result,
                   decimalStr, decParts, decResult>>

\* parse returns the AST
ParseReturn ==
    /\ pc = "parse"
    /\ index = Len(tokens)
    /\ sections' = finalSections(sections, section)
    /\ pc' = "select"
    /\ UNCHANGED <<format, value, pos, tokens, index, section, selected, result,
                   decimalStr, decParts, decResult>>

\* render calls selectSection(ast, value)
SelectSection ==
    /\ pc = "select"
    /\ \E v \in Values :
         /\ value' = v
         /\ selected' = selectSection(sections, v)
    /\ pc' = "render"
    /\ UNCHANGED <<format, pos, tokens, index, sections, section, result,
                   decimalStr, decParts, decResult>>

\* the rest of render: the condition of the selected section, then renderSection
Render ==
    /\ pc = "render"
    /\ result' = renderResult(sections, selected, value)
    /\ sections' = IF Renders(sections, selected, value)
                   THEN [sections EXCEPT ![selected].parts =
                             partsAfterRender(sections[selected], value)]
                   ELSE sections
    /\ pc' = "done"
    /\ UNCHANGED <<format, value, pos, tokens, index, section, selected,
                   decimalStr, decParts, decResult>>

Next == TokenizeStep \/ TokenizeReturn \/ ParseStep \/ ParseReturn \/ SelectSection \/ Render

Spec == Init /\ [][Next]_vars

\* new Tokenizer(format).tokenize() on its own, run to completion: the scan loop is
\* synchronous code that keeps being executed once entered
NextTokenize == TokenizeStep \/ TokenizeReturn

SpecTokenize == Init /\ [][NextTokenize]_vars /\ WF_vars(NextTokenize)

-----------------------------------------------------------------------------
(* formatDecimalPart(decimalStr, section, parts) on its own *)

InitDecimal ==
    /\ pc = "decimal"
    /\ decimalStr \in DecimalStrs
    /\ decParts \in SeqsOver(DecPartChoices, 0, MaxDecParts)
    /\ decResult = <<>>
    /\ format = <<>>
    /\ value = NoValue
    /\ pos = 0
    /\ tokens = <<>>
    /\ index = 0
    /\ sections = <<>>
    /\ section = NewSection
    /\ selected = 0
    /\ result = NoResult

FormatDecimal ==
    /\ pc = "decimal"
    /\ decResult' = formatDecimalPart(decimalStr, NewSection, decParts)
    /\ pc' = "decimalDone"
    /\ UNCHANGED <<format, value, pos, tokens, index, sections, section, selected,
                   result, decimalStr, decParts>>

NextDecimal == FormatDecimal

SpecDecimal == InitDecimal /\ [][NextDecimal]_vars

-----------------------------------------------------------------------------
(* Section selection *)

NoConditions(secs) == \A i \in 1..Len(secs) : ~HasCondition(secs[i])

IsPositive(v) == ~v.neg /\ v.n > 0

IsNegative(v) == v.neg

\* C1: the section a number is formatted through when no section carries a condition
SectionByCount(n, v) ==
    IF n = 1 THEN 1
    ELSE IF n = 2 THEN (IF IsNegative(v) THEN 2 ELSE 1)
    ELSE IF IsPositive(v) THEN 1 ELSE IF IsNegative(v) THEN 2 ELSE 3

\* C1: for a number and an AST of 1 to 4 sections none of which carries a condition,
\* render formats the value through S[0] if n = 1; S[1] if v < 0 else S[0] if n = 2;
\* S[0] if v > 0, S[1] if v < 0, S[2] if v = 0 when n is 3 or 4; the color returned
\* is that section's color.
C1_SectionByCount ==
    [][(/\ pc = "render"
        /\ IsNumber(value)
        /\ Len(sections) \in 1..4
        /\ NoConditions(sections))
       => LET k == SectionByCount(Len(sections), value) IN
          /\ selected = k
          /\ result' = [text |-> renderSection(sections[k], value),
                        color |-> sections[k].color]]_vars

\* C1: zero was formatted through the third of three sections without conditions
C1_Witness ==
    /\ pc = "done"
    /\ IsNumber(value) /\ value.n = 0
    /\ Len(sections) = 3
    /\ NoConditions(sections)
    /\ selected = 3
    /\ sections[3].color = <<"B", "l", "u", "e">>
    /\ result.color = <<"B", "l", "u", "e">>

\* the least element of a set of positions, 0 for the empty set
LeastOrZero(S) == IF S = {} THEN 0 ELSE CHOOSE i \in S : \A j \in S : i <= j

\* C2: the section a number is formatted through when some section carries a condition
SectionByCondition(secs, v) ==
    LET holds == {i \in 1..Len(secs) :
                     HasCondition(secs[i]) /\ evaluateCondition(secs[i].condition, v)}
        plain == {i \in 1..Len(secs) : ~HasCondition(secs[i])}
    IN IF holds # {} THEN LeastOrZero(holds) ELSE LeastOrZero(plain)

\* C2: for a number and a format of at least two sections of which at least one carries
\* a condition, render uses the first section in format order whose condition holds;
\* if none holds, the first section without a condition; if every section carries a
\* condition and none holds, the result is the text String(v) with no color.
C2_FirstMatchingCondition ==
    [][(/\ pc = "render"
        /\ IsNumber(value)
        /\ Len(sections) >= 2
        /\ ~NoConditions(sections))
       => LET k == SectionByCondition(sections, value) IN
          /\ selected = k
          /\ result' = IF k = 0 THEN [text |-> StringOf(value), color |-> NoColor]
                       ELSE [text |-> renderSection(sections[k], value),
                             color |-> sections[k].color]]_vars

\* C2: two sections' conditions hold and the earlier one, not the first section, was used
C2_Witness ==
    /\ pc = "done"
    /\ IsNumber(value)
    /\ Len(sections) >= 3
    /\ selected = 2
    /\ HasCondition(sections[1])
    /\ \E j \in 3..Len(sections) :
         HasCondition(sections[j]) /\ evaluateCondition(sections[j].condition, value)

IsLiteral(p) == p.kind = "Literal"

\* the characters of the Literal parts, in order
LiteralChars(parts) ==
    LET lits == SelectSeq(parts, IsLiteral) IN [i \in 1..Len(lits) |-> lits[i].char]

\* C3: for a text value render selects S[3] when the AST has exactly 4 sections and S[0]
\* otherwise, whatever conditions the sections carry; when the selected section has no
\* condition the text returned is the characters of its Literal parts in order, every
\* other part skipped and the input text not echoed.
C3_TextSection ==
    (pc = "done" /\ ~IsNumber(value) /\ Len(sections) >= 1)
    => /\ selected = IF Len(sections) = 4 THEN 4 ELSE 1
       /\ ~HasCondition(sections[selected])
          => result = [text |-> LiteralChars(sections[selected].parts),
                       color |-> sections[selected].color]

\* C3: a text went through the fourth section, which holds a literal and a placeholder,
\* while another section carries a condition
C3_Witness ==
    /\ pc = "done"
    /\ ~IsNumber(value)
    /\ Len(sections) = 4
    /\ selected = 4
    /\ ~NoConditions(sections)
    /\ \E i \in 1..Len(sections[4].parts) : IsPlaceholderPart(sections[4].parts[i])
    /\ result.text = <<"t">>

-----------------------------------------------------------------------------
(* The decimal point and the sign *)

CountWhere(s, Test(_)) == Cardinality({i \in 1..Len(s) : Test(s[i])})

IsDecimalPointToken(tk) == tk.type = "DecimalPoint"

RECURSIVE AllParts(_)
AllParts(secs) == IF secs = <<>> THEN <<>> ELSE Head(secs).parts \o AllParts(Tail(secs))

Fmt_0d000 == <<"0", ".", "0", "0", "0">>

Fmt_0c0d00 == <<"0", ",", "0", ".", "0", "0">>

\* C4: for every format with a '.' outside quotes and brackets the builder appends a
\* Dot part for it, and render of a number returns integer-side text, '.', decimal-side
\* text: render(123.456, '0.000').text = '123.456' and
\* render(1234.56, '0,0.00').text = '1,234.56'.
C4_DotPartAppended ==
    /\ pc \in {"select", "render"}
       => CountWhere(AllParts(sections), IsDot) = CountWhere(tokens, IsDecimalPointToken)
    /\ (pc = "done" /\ format = Fmt_0d000 /\ value = Num(FALSE, 123456, 3))
       => result.text = <<"1", "2", "3", ".", "4", "5", "6">>
    /\ (pc = "done" /\ format = Fmt_0c0d00 /\ value = Num(FALSE, 123456, 2))
       => result.text = <<"1", ",", "2", "3", "4", ".", "5", "6">>

Fmt_NegRed == <<"0", ";", "[", "R", "e", "d", "]", "-", "0">>

Fmt_NegRedZeroBlue ==
    <<"0", ";", "[", "R", "e", "d", "]", "-", "0", ";",
      "[", "B", "l", "u", "e", "]", "\"", "Z", "e", "r", "o", "\"">>

IsMinus(c) == c = "-"

\* C5: a negative number rendered through a negative section that holds a literal '-'
\* before its placeholder carries exactly one minus sign:
\* render(-123, '0;[Red]-0') = {text: '-123', color: 'Red'} and
\* render(-100, '0;[Red]-0;[Blue]"Zero"') = {text: '-100', color: 'Red'}.
C5_SingleMinus ==
    /\ (pc = "done" /\ format = Fmt_NegRed /\ value = Num(TRUE, 123, 0))
       => result = [text |-> <<"-", "1", "2", "3">>, color |-> <<"R", "e", "d">>]
    /\ (pc = "done" /\ format = Fmt_NegRedZeroBlue /\ value = Num(TRUE, 100, 0))
       => result = [text |-> <<"-", "1", "0", "0">>, color |-> <<"R", "e", "d">>]
    /\ (pc = "done" /\ format \in {Fmt_NegRed, Fmt_NegRedZeroBlue}
        /\ IsNumber(value) /\ IsNegative(value))
       => CountWhere(result.text, IsMinus) = 1

-----------------------------------------------------------------------------
(* The integer side *)

IsInteger(v) == IsNumber(v) /\ v.e = 0

SignOf(v) == IF v.neg THEN <<"-">> ELSE <<>>

\* the decimal digits of the whole part of |v| * 100^percentCount
FloorDigits(v, percentCount) ==
    IF v.n = 0 THEN <<"0">>
    ELSE IF 2 * percentCount >= v.e
    THEN NatToDigits(v.n) \o Repeat("0", 2 * percentCount - v.e)
    ELSE NatToDigits(v.n \div Pow10(v.e - 2 * percentCount))

\* The integer side read left to right.  Of m placeholders the one of rank r from
\* the right shows the r-th digit from the right; the leftmost one shows every digit
\* from the m-th on; a placeholder left without a digit shows its pad ('0' for 0,
\* ' ' for ?, nothing for #).  Digits and '0' pads are numbered from the right, and with
\* grouping a ',' follows each of those numbered 4, 7, 10, ...
RefInteger(D, thousandSeparator, parts) ==
    LET d == Len(D)
        n == Len(parts)
        m == CountWhere(parts, IsPlaceholderPart)
        rank(i) == Cardinality({j \in i..n : IsPlaceholderPart(parts[j])})
        zerosIn(lo, hi) == Cardinality({j \in 1..n : /\ parts[j].kind = "ZeroDigit"
                                                      /\ rank(j) >= lo /\ rank(j) <= hi})
        grouped(c, rho) == IF thousandSeparator /\ rho >= 4 /\ rho % 3 = 1
                           THEN <<c, ",">> ELSE <<c>>
        RECURSIVE run(_, _)
        run(k, last) == IF k > last THEN <<>>
                        ELSE grouped(D[k], d - k + 1) \o run(k + 1, last)
        piece(i) ==
            LET p == parts[i] r == rank(i) IN
            IF p.kind = "Literal" THEN <<p.char>>
            ELSE IF p.kind = "Percent" THEN <<"%">>
            ELSE IF ~IsPlaceholderPart(p) THEN <<>>
            ELSE IF r <= d THEN (IF r = m THEN run(1, d - r + 1) ELSE grouped(D[d - r + 1], r))
            ELSE IF p.kind = "ZeroDigit" THEN grouped("0", d + zerosIn(d + 1, r))
            ELSE IF p.kind = "SpaceDigit" THEN <<" ">>
            ELSE <<>>
        RECURSIVE cat(_)
        cat(i) == IF i > n THEN <<>> ELSE piece(i) \o cat(i + 1)
    IN cat(1)

IsAll(s, c) == s # <<>> /\ \A i \in 1..Len(s) : s[i] = c

\* C6: for an integer v and a format of k >= 1 '0' placeholders the text is the decimal
\* digits of |v| left-padded with '0' to width k when |v| < 10^k, the unpadded digits
\* otherwise, after a single '-' when v < 0.
C6_ZeroPadding ==
    (pc = "done" /\ IsInteger(value) /\ IsAll(format, "0"))
    => LET digits == NatToDigits(value.n)
           k == Len(format)
       IN result.text = SignOf(value) \o Repeat("0", Max(0, k - Len(digits))) \o digits

\* C6: -3 through '00' gave '-03'
C6_Witness ==
    /\ pc = "done"
    /\ format = <<"0", "0">>
    /\ value = Num(TRUE, 3, 0)
    /\ result.text = <<"-", "0", "3">>

\* C7: integer-side placeholders set a minimum width and never truncate: for an integer v
\* and a section with at least one placeholder, every digit of |v| (percent-scaled)
\* appears in order, the leftmost placeholder taking every digit the placeholders to its
\* right leave, each Literal and Percent part stays between the same placeholders, and
\* for an all-'#' format the text is the plain decimal string of v.
C7_MinimumWidth ==
    [][(/\ pc = "render"
        /\ IsInteger(value)
        /\ Renders(sections, selected, value)
        /\ \E i \in 1..Len(sections[selected].parts) :
               IsPlaceholderPart(sections[selected].parts[i]))
       => LET sec == sections[selected] IN
          /\ result'.text = SignOf(value)
                            \o RefInteger(FloorDigits(value, sec.percentCount),
                                          sec.thousandSeparator, sec.parts)
          /\ IsAll(format, "#") => result'.text = StringOf(value)]_vars

\* C7: the leftmost of two placeholders around a literal took six of seven digits
C7_Witness ==
    /\ pc = "done"
    /\ format = <<"#", "x", "#">>
    /\ value = Num(FALSE, 1234567, 0)
    /\ result.text = <<"1", "2", "3", "4", "5", "6", "x", "7">>

\* the digit characters of t to the right of position i
DigitsRightOf(t, i) == Cardinality({j \in (i + 1)..Len(t) : IsDigitChar(t[j])})

\* a ',' stands right after a digit with a positive multiple of 3 digits to its right,
\* and every digit with such a count to its right is followed by a ','
GroupedByThree(t) ==
    /\ \A i \in 1..Len(t) :
         t[i] = "," => /\ i > 1
                       /\ IsDigitChar(t[i - 1])
                       /\ DigitsRightOf(t, i) > 0
                       /\ DigitsRightOf(t, i) % 3 = 0
    /\ \A i \in 1..Len(t) :
         (IsDigitChar(t[i]) /\ DigitsRightOf(t, i) > 0 /\ DigitsRightOf(t, i) % 3 = 0)
         => (i < Len(t) /\ t[i + 1] = ",")

\* position j of t holds a pad: a space, or a '0' beyond the d digits of the value
IsPadAt(t, j, d) ==
    /\ j >= 1 /\ j <= Len(t)
    /\ \/ t[j] = " "
       \/ IsDigitChar(t[j]) /\ DigitsRightOf(t, j) + 1 > d

NoCommaAtPad(t, d) ==
    \A i \in 1..Len(t) : t[i] = "," => ~IsPadAt(t, i - 1, d) /\ ~IsPadAt(t, i + 1, d)

\* a non-negative integer is about to be rendered through a section with
\* thousandSeparator set whose literals are neither ',' nor digits
GroupingCase ==
    /\ pc = "render"
    /\ IsInteger(value) /\ ~value.neg
    /\ Renders(sections, selected, value)
    /\ sections[selected].thousandSeparator
    /\ \A i \in 1..Len(sections[selected].parts) :
         LET p == sections[selected].parts[i] IN
         p.kind = "Literal" => p.char # "," /\ ~IsDigitChar(p.char)

C10_NoDotTruncates ==
    [][(/\ pc = "render"
        /\ IsNumber(value) /\ value.e > 0
        /\ Renders(sections, selected, value)
        /\ ~\E i \in 1..Len(sections[selected].parts) : IsDot(sections[selected].parts[i]))
       => LET sec == sections[selected] IN
          result'.text = SignOf(value)
                         \o RefInteger(FloorDigits(value, sec.percentCount),
                                       sec.thousandSeparator, sec.parts)]_vars

\* C10: 12.75 through '0' gave '12', not '13'
C10_Witness ==
    /\ pc = "done"
    /\ format = <<"0">>
    /\ value = Num(FALSE, 1275, 2)
    /\ result.text = <<"1", "2">>

-----------------------------------------------------------------------------
(* The decimal side *)

\* The decimal side read left to right without rounding: the j-th placeholder shows
\* the j-th fraction digit, or its pad once the digits are used up.
RefDecimalPlain(decStr, parts) ==
    LET n == Len(parts)
        nth(i) == Cardinality({j \in 1..i : IsPlaceholderPart(parts[j])})
        piece(i) ==
            LET p == parts[i] IN
            IF p.kind = "Literal" THEN <<p.char>>
            ELSE IF p.kind = "Percent" THEN <<"%">>
            ELSE IF ~IsPlaceholderPart(p) THEN <<>>
            ELSE IF nth(i) <= Len(decStr) THEN <<decStr[nth(i)]>>
            ELSE IF p.kind = "ZeroDigit" THEN <<"0">>
            ELSE IF p.kind = "SpaceDigit" THEN <<" ">>
            ELSE <<>>
        RECURSIVE cat(_)
        cat(i) == IF i > n THEN <<>> ELSE piece(i) \o cat(i + 1)
    IN cat(1)

\* C9: for every fraction-digit string and every decimal-side part sequence with at
\* least one placeholder, the character emitted at the last placeholder is the consumed
\* digit incremented by exactly one, still a single character, whenever the first
\* fraction digit not rendered is '5'..'9', and the consumed digit unchanged otherwise;
\* no other emitted character is changed.
C9_RoundsLastPlaceholder ==
    (pc = "decimalDone" /\ \E i \in 1..Len(decParts) : IsPlaceholderPart(decParts[i]))
    => LET m == CountWhere(decParts, IsPlaceholderPart)
           last == LastIndex(decParts, IsPlaceholderPart)
           plain == RefDecimalPlain(decimalStr, decParts)
           at == Len(RefDecimalPlain(decimalStr, SubSeq(decParts, 1, last - 1))) + 1
           roundUp == /\ m + 1 <= Len(decimalStr)
                      /\ decimalStr[m + 1] \in {"5", "6", "7", "8", "9"}
       IN /\ Len(decResult) = Len(plain)
          /\ \A i \in 1..Len(plain) : i # at => decResult[i] = plain[i]
          /\ roundUp => /\ IsDigitChar(decResult[at])
                        /\ DigitValue(decResult[at]) = DigitValue(decimalStr[m]) + 1
          /\ ~roundUp => decResult = plain

-----------------------------------------------------------------------------
(* C11, C12: the sections of the AST *)

\* parse has returned
Parsed == pc \in {"select", "render", "done"}

IsSeparatorToken(tk) == tk.type = "SectionSeparator"

SepCount(tks) == CountWhere(tks, IsSeparatorToken)

\* the position (1-based) of the k-th separator of tks; 0 for k = 0 and Len(tks) + 1
\* for k past the last separator
SepAt(tks, k) ==
    IF k = 0 THEN 0
    ELSE IF k > SepCount(tks) THEN Len(tks) + 1
    ELSE CHOOSE i \in 1..Len(tks) :
             /\ IsSeparatorToken(tks[i])
             /\ Cardinality({j \in 1..i : IsSeparatorToken(tks[j])}) = k

\* how many parts the token at position j (1-based) of tks stands for
PartsYielded(tks, j) ==
    LET tk == tks[j] IN
    IF tk.type = "Quoted" THEN Len(tk.text)
    ELSE IF tk.type \in {"Percent", "Literal", "Placeholder"} THEN 1
    ELSE IF tk.type = "ThousandSep" /\ j > 1 /\ tks[j - 1].type = "Literal" THEN 1
    ELSE 0

RECURSIVE PartsBetween(_, _, _)
PartsBetween(tks, lo, hi) ==
    IF lo > hi THEN 0 ELSE PartsYielded(tks, lo) + PartsBetween(tks, lo + 1, hi)

\* how many parts the tokens between separator k - 1 and separator k stand for
SegmentParts(tks, k) == PartsBetween(tks, SepAt(tks, k - 1) + 1, SepAt(tks, k) - 1)

\* C11 as amended: the AST has one section for every section separator, and one more
\* exactly when the tokens after the last separator (all the tokens when there is
\* none) stand for at least one part; the count is 0 for the empty format and
\* exceeds 4 for a format of five sections
C11_SectionCount ==
    Parsed =>
        Len(sections) = SepCount(tokens)
                        + (IF SegmentParts(tokens, SepCount(tokens) + 1) > 0 THEN 1 ELSE 0)

\* C11 as claimed: for every format string the AST has between 1 and 4 sections
C11_OneToFourSections == Parsed => Len(sections) \in 1..4

\* C11: '0;0;0;0;0' gave an AST of five sections
C11_Witness ==
    /\ pc = "select"
    /\ SepCount(tokens) = 4
    /\ Len(sections) = 5

\* C12: the builder pushes the in-progress section at every separator even when it
\* has no part, and after the last token only when it has a part: section k of the AST
\* holds as many parts as the tokens between separators k - 1 and k stand for (none
\* for an empty section, which keeps its position), and a trailing run of tokens that
\* stands for no part (a color or a condition alone included) leaves no section
C12_SeparatorKeepsSection ==
    Parsed =>
        LET n == SepCount(tokens) IN
        /\ Len(sections) \in {n, n + 1}
        /\ \A k \in 1..Len(sections) : Len(sections[k].parts) = SegmentParts(tokens, k)
        /\ Len(sections) = n + 1 <=> SegmentParts(tokens, n + 1) > 0

\* C12: ';0;[Red]' kept its empty first section and dropped its trailing one, which
\* holds a color and no part
C12_Witness ==
    /\ pc = "select"
    /\ format = <<";", "0", ";", "[", "R", "e", "d", "]">>
    /\ Len(sections) = 2
    /\ sections[1].parts = <<>>
    /\ sections[2].parts # <<>>

-----------------------------------------------------------------------------
(* C13: render returns *)

RangeOf(f) == {f[i] : i \in 1..Len(f)}

\* the characters a rendered text is made of: those of the format and of the value's
\* own text, digits, the sign, the grouping comma and the pad
TextChars(fmt, v) ==
    RangeOf(fmt) \cup RangeOf(StringOf(v)) \cup DigitSet \cup {"-", ",", " "}

\* C13: render returns a result with a text string and never raises, for every value
\* and every format, the empty format, a format of only separators, and a format that
\* ends in an open quote or bracket or in a '\', '*' or '_' included: the section
\* render goes on with is null or a section of the AST, and the result returned is no
\* thrown error and has a text made of characters of the format, of String(value),
\* digits, '-', ',' and ' '
C13_RenderReturnsText ==
    /\ pc \in {"render", "done"} => selected \in 0..Len(sections)
    /\ pc = "done" =>
           /\ result # Thrown
           /\ result # NoResult
           /\ result.text \in Seq(TextChars(format, value))

\* C13: 7 through '0\' gave '7'
C13_Witness ==
    /\ pc = "done"
    /\ format = <<"0", "\\">>
    /\ value = Num(FALSE, 7, 0)
    /\ result.text = <<"7">>

-----------------------------------------------------------------------------
(* C14: percent marks *)

IsPercentToken(tk) == tk.type = "Percent"

\* the Percent tokens between separator k - 1 and separator k: the percent marks
\* outside quotes of section k
PercentMarks(tks, k) ==
    Cardinality({j \in (SepAt(tks, k - 1) + 1)..(SepAt(tks, k) - 1) : IsPercentToken(tks[j])})

\* the elements of s that are in S, in their order
RECURSIVE Only(_, _)
Only(s, S) ==
    IF s = <<>> THEN <<>>
    ELSE (IF Head(s) \in S THEN <<Head(s)>> ELSE <<>>) \o Only(Tail(s), S)

\* C14: for a number and a selected section with k percent marks outside quotes and at
\* least one placeholder, the digits rendered are those of the whole part of
\* |v| * 100^k, after '-' when v < 0, and every percent mark is emitted as '%' at its
\* position in the format: among the literals of a format of placeholders, commas,
\* 'x' and '%', the text holds the '%' and 'x' of the format in the format's order
C14_PercentScales ==
    [][(/\ pc = "render"
        /\ IsNumber(value)
        /\ Renders(sections, selected, value)
        /\ \E i \in 1..Len(sections[selected].parts) :
               IsPlaceholderPart(sections[selected].parts[i]))
       => LET sec == sections[selected]
              k == PercentMarks(tokens, selected)
          IN /\ result'.text = SignOf(value)
                               \o RefInteger(FloorDigits(value, k),
                                             sec.thousandSeparator, sec.parts)
             /\ format \in BodyFormats
                   => Only(result'.text, {"%", "x"}) = Only(format, {"%", "x"})]_vars

\* C14: 1.5 through '0"%"%' gave '150%%': the quoted '%' did not scale, the other did
C14_Witness ==
    /\ pc = "done"
    /\ format = <<"0", "\"", "%", "\"", "%">>
    /\ value = Num(FALSE, 15, 1)
    /\ result.text = <<"1", "5", "0", "%", "%">>

-----------------------------------------------------------------------------
(* C15: single-section formats *)

\* v op c for a condition [op c]
Satisfies(v, condition) ==
    LET c == Compare(v, condition.value) IN
    \/ condition.op \in {<<">">>, <<">", "=">>, <<"<", ">">>} /\ c > 0
    \/ condition.op \in {<<"<">>, <<"<", "=">>, <<"<", ">">>} /\ c < 0
    \/ condition.op \in {<<"=">>, <<">", "=">>, <<"<", "=">>} /\ c = 0

\* C15: for a single-section format render uses S[0] whatever the value's sign or kind;
\* when that section carries a condition, a number satisfying it is formatted through
\* the section with its color, and a number failing it and every text give
\* {text: String(value)} without color and without the section's literals or padding
C15_SingleSection ==
    [][(pc = "render" /\ Len(sections) = 1)
       => LET sec == sections[1] IN
          /\ selected = 1
          /\ IF HasCondition(sec) /\ ~(IsNumber(value) /\ Satisfies(value, sec.condition))
             THEN result' = [text |-> StringOf(value), color |-> NoColor]
             ELSE result' = [text |-> renderSection(sec, value), color |-> sec.color]]_vars

\* C15: the text 'ab' through '[<=0][Red]x' gave 'ab' without color, not 'x' in Red
C15_Witness ==
    /\ pc = "done"
    /\ format = <<"[", "<", "=", "0", "]", "[", "R", "e", "d", "]", "x">>
    /\ value = Text(<<"a", "b">>)
    /\ result = [text |-> <<"a", "b">>, color |-> NoColor]

-----------------------------------------------------------------------------
(* C16, C17: commas *)

IsPlaceholderToken(tk) == tk.type = "Placeholder"

\* C16: for each thousands-separator token the builder does exactly one of: set
\* thousandSeparator (previous and next tokens are placeholders); multiply scale by
\* 1000 (the previous token is a placeholder and no placeholder occurs later in the
\* token stream, later sections included); append a Literal ',' part (the previous
\* token is a literal); nothing (every other case).  Only the third appends a part.
C16_CommaCases ==
    [][(/\ pc = "parse"
        /\ index < Len(tokens)
        /\ tokens[index + 1].type = "ThousandSep")
       => LET prevIs(t) == index >= 1 /\ tokens[index].type = t
              nextIs(t) == index + 2 <= Len(tokens) /\ tokens[index + 2].type = t
              later == \E j \in (index + 2)..Len(tokens) : IsPlaceholderToken(tokens[j])
              grouping == prevIs("Placeholder") /\ nextIs("Placeholder")
              scaling == prevIs("Placeholder") /\ ~later
              literal == prevIs("Literal")
          IN /\ ~(grouping /\ scaling) /\ ~(grouping /\ literal) /\ ~(scaling /\ literal)
             /\ sections' = sections
             /\ section' =
                  IF grouping THEN [section EXCEPT !.thousandSeparator = TRUE]
                  ELSE IF scaling THEN [section EXCEPT !.scale = 1000 * section.scale]
                  ELSE IF literal
                  THEN [section EXCEPT !.parts = section.parts \o <<Part("Literal", ",")>>]
                  ELSE section
             /\ Len(section'.parts) # Len(section.parts) <=> literal]_vars

\* C16: the comma of '0,;0' did nothing, a placeholder occurring in the next section
C16_Witness ==
    /\ pc = "select"
    /\ format = <<"0", ",", ";", "0">>
    /\ Len(sections) = 2
    /\ sections[1] = [NewSection EXCEPT !.parts = <<Part("ZeroDigit", "")>>]

\* the commas that follow position p (1-based) of tks without a gap
RECURSIVE CommasAfter(_, _)
CommasAfter(tks, p) ==
    IF p + 1 <= Len(tks) /\ tks[p + 1].type = "ThousandSep"
    THEN 1 + CommasAfter(tks, p + 1)
    ELSE 0

\* C17: trailing commas compound the scale: for a section whose last placeholder is
\* followed by k >= 1 consecutive commas and no later placeholder, the builder sets
\* the section's scale to 1000^k (k up to 3 here)
C17_ScaleCompounds ==
    Parsed =>
        \A s \in 1..Len(sections) :
            LET lo == SepAt(tokens, s - 1) + 1
                hi == SepAt(tokens, s) - 1
                ph == {j \in lo..hi : IsPlaceholderToken(tokens[j])}
                p == CHOOSE j \in ph : \A m \in ph : m <= j
                k == CommasAfter(tokens, p)
            IN (/\ ph # {}
                /\ ~\E j \in (p + 1)..Len(tokens) : IsPlaceholderToken(tokens[j])
                /\ k \in 1..3)
               => sections[s].scale = (IF k = 1 THEN 1000 ELSE IF k = 2 THEN 1000000
                                       ELSE 1000000000)

-----------------------------------------------------------------------------
(* C18: the AST across a render *)

\* C18: rendering a value through an AST leaves the AST unchanged: after the renderer
\* has formatted a number through a section the section's parts list holds the same
\* parts in the same order, so rendering the same value again through the same AST
\* gives the same result
C18_ASTUnchanged ==
    [][pc = "render"
       => /\ sections' = sections
          /\ renderResult(sections', selected, value) = result']_vars

-----------------------------------------------------------------------------
(* C19: tokenize terminates *)

\* C19: tokenize terminates for every format: every iteration of the scan loop emits
\* exactly one token and strictly advances the cursor, the number of tokens never
\* exceeds the length of the format, and the loop is left
C19_TokenizeTerminates ==
    /\ [][(pc = "tokenize" /\ pc' = "tokenize")
          => /\ pos' > pos
             /\ Len(tokens') = Len(tokens) + 1
             /\ Len(tokens') <= Len(format)]_vars
    /\ (pc = "tokenize") ~> (pc = "parse")

\* C19: 'yyyy-mm' was scanned into three tokens, the cursor at the format's end
C19_Witness ==
    /\ pc = "parse"
    /\ format = <<"y", "y", "y", "y", "-", "m", "m">>
    /\ Len(tokens) = 3
    /\ pos = 7

-----------------------------------------------------------------------------
(* C20: the scale is not used *)

\* the position (1-based) of the last placeholder token of tks, 0 when there is none
LastPlaceholder(tks) == LastIndex(tks, IsPlaceholderToken)

\* C20 as amended: the rendered output never depends on a section's scale: for every
\* value v and format f that ends with a digit placeholder, render(v, f with a ','
\* appended) equals render(v, f)
C20_ScaleIgnored ==
    (pc = "done" /\ tokens # <<>> /\ LastPlaceholder(tokens) = Len(tokens))
        => render(value, format \o <<",">>) = result

\* C20 as claimed: the same for every format whose last placeholder is not followed
\* by a comma, whatever follows the placeholder
C20_TrailingCommaIgnored ==
    (/\ pc = "done"
     /\ LastPlaceholder(tokens) > 0
     /\ CommasAfter(tokens, LastPlaceholder(tokens)) = 0)
        => render(value, format \o <<",">>) = result

\* C20: 1234567 through '#' and through '#,', whose section has scale 1000, both
\* gave '1234567'
C20_Witness ==
    /\ pc = "done"
    /\ format = <<"#">>
    /\ value = Num(FALSE, 1234567, 0)
    /\ result.text = <<"1", "2", "3", "4", "5", "6", "7">>
    /\ parse(tokenize(<<"#", ",">>))[1].scale = 1000
    /\ render(value, <<"#", ",">>) = result

-----------------------------------------------------------------------------
(* C21: the tokens the builder ignores *)

IgnoredTokenTypes == {"Escape", "Fill", "Space", "DateToken", "Locale", "TextPlaceholder"}

\* characters put after a '\' in front of a format
EscapedChars == {"x", "0", ";", "\"", ","}

DateLetters == {"y", "m", "d", "h", "s"}

\* no character of the format opens a quote, a bracket or a marker
IsUnquoted(fmt) == RangeOf(fmt) \cap {"\"", "[", "\\", "*", "_"} = {}

====
